---- MODULE Spec2Model ----
(***************************************************************************)
(* A model of pykg-config's metadata resolution engine:                   *)
(*   pkgsearcher.py  the search index and the resolver,                   *)
(*   dependency.py   the version constraint,                              *)
(*   pcfile.py       the metadata-file parser,                            *)
(*   packagespeclist.py  the parser of a list of constraints,             *)
(*   pkgconfig.py    the Env context manager.                             *)
(*                                                                         *)
(* Text is modelled as a sequence of tokens (a token is a TLA+ string     *)
(* standing for the characters it spells), so that concatenation,         *)
(* endswith(".pc"), filename[:-3] and os.path.join are computed on the    *)
(* text and not assumed.                                                   *)
(***************************************************************************)
EXTENDS Integers, Sequences, FiniteSets, TLC

VARIABLES
    fs,           \* the directories that exist: path -> os.listdir(path)
    pc_content,   \* each listed .pc path -> what Package(path) finds in it
    options,      \* the Options() singleton
    pc_path,      \* install_config.pc_path (<<>> when None)
    platform,     \* sys.platform
    registry,     \* the two pkg-config registry keys (win32 only)
    globals,      \* PkgSearcher.globals
    _known_pkgs,  \* PkgSearcher._known_pkgs, a dict in insertion order
    scan_log,     \* the directories _append_packages was called for, in order
    constructed,  \* PkgSearcher.__init__ has returned
    last,         \* the last call on the PkgSearcher and how it ended
    lines,            \* the physical lines handed to the parser
    global_variables, \* the globals handed to the parser
    parse_last,       \* the last call into pcfile.py and how it ended
    dependency,       \* a Dependency object
    argument,         \* the argument of the call on it, or the text to parse
    dep_last,         \* the last call into dependency.py or packagespeclist.py
    os_environ,       \* the object the name os.environ is bound to
    process_environ,  \* the environment of the process, which children inherit
    env_block         \* the Env context manager and where its with block stands

searcher_vars == <<fs, pc_content, options, pc_path, platform, registry,
                   globals, _known_pkgs, scan_log, constructed, last>>

parser_vars == <<lines, global_variables, parse_last>>

dep_vars == <<dependency, argument, dep_last>>

env_vars == <<os_environ, process_environ, env_block>>

vars == <<searcher_vars, parser_vars, dep_vars, env_vars>>

-----------------------------------------------------------------------------
(* Bounds of the model *)

\* Longest PKG_CONFIG_PATH list given to the constructor.
MaxPathLen == 2

\* Largest version number a constraint names (versions are 1..MaxVersion).
MaxVersion == 3

\* Most physical lines a parsed file has.
MaxLines == 3

\* Most parts (names, operators, versions, separators) a dependency list is
\* written from.
MaxPieces == 5

-----------------------------------------------------------------------------
(* Text *)

Slash == "/"
PcExt == ".pc"
Uninstalled == "-uninstalled"

\* str.endswith(".pc")
endswith_pc(filename) == Len(filename) >= 1 /\ filename[Len(filename)] = PcExt

\* filename[:-3] cut further, at the first token after the stem's first
strip_ext_and_suffix(filename) == SubSeq(filename, 1, 1)

\* filename[:-3], for a filename that ends with ".pc"
strip_ext(filename) == SubSeq(filename, 1, Len(filename) - 1)

\* os.path.splitext(p)[1] == ".pc": the extension is looked for in the last
\* component and a leading dot of that component does not start one.
splitext_is_pc(p) ==
    /\ Len(p) >= 2
    /\ p[Len(p)] = PcExt
    /\ p[Len(p) - 1] # Slash

\* os.path.join(a, b) on POSIX
join(a, b) ==
    IF b # <<>> /\ b[1] = Slash THEN b
    ELSE IF a = <<>> \/ a[Len(a)] = Slash THEN a \o b
    ELSE a \o <<Slash>> \o b

\* str.split(sep): the pieces between the separators, empty pieces kept
RECURSIVE split_from(_, _, _, _)
split_from(s, sep, i, piece) ==
    IF i > Len(s) THEN <<piece>>
    ELSE IF s[i] = sep THEN <<piece>> \o split_from(s, sep, i + 1, <<>>)
    ELSE split_from(s, sep, i + 1, Append(piece, s[i]))

split(s, sep) == split_from(s, sep, 1, <<>>)

\* The elements of a sequence
Range(s) == {s[i] : i \in 1..Len(s)}

\* The concatenation of a sequence of sequences
RECURSIVE Flatten(_)
Flatten(ss) == IF ss = <<>> THEN <<>> ELSE Head(ss) \o Flatten(Tail(ss))

\* All sequences over S of length at most n
SeqsUpTo(S, n) == UNION {[1..k -> S] : k \in 0..n}

-----------------------------------------------------------------------------
(* A Python dict: a sequence of [k, v] items in insertion order *)

EmptyDict == <<>>

DictKeys(d) == {d[i].k : i \in 1..Len(d)}

DictHas(d, key) == key \in DictKeys(d)

DictGet(d, key) == d[CHOOSE i \in 1..Len(d) : d[i].k = key].v

DictSet(d, key, val) ==
    IF DictHas(d, key)
    THEN [i \in 1..Len(d) |-> IF d[i].k = key THEN [k |-> key, v |-> val] ELSE d[i]]
    ELSE Append(d, [k |-> key, v |-> val])

-----------------------------------------------------------------------------
(* The file system and the configuration *)

isdir(d) == d \in DOMAIN fs
listdir(d) == fs[d]

\* Every path a listed entry of an existing directory has
ListedPaths == UNION {{join(d, fs[d][i]) : i \in 1..Len(fs[d])} : d \in DOMAIN fs}

isfile(p) == p \in ListedPaths

\* sys.prefix, used when the globals name no prefix
SysPrefix == <<Slash, "usr">>

\* PkgSearcher._split_char
_split_char == IF platform = "win32" THEN ";" ELSE ":"

-----------------------------------------------------------------------------
(* Exceptions: the class of each and its base class.  UndefinedVarError and *)
(* ParseError come from modules outside these sources; only that they are  *)
(* neither IOError nor PackageNotFoundError is used.                        *)

ExcBase ==
    [PykgConfigError      |-> "Exception",
     PackageNotFoundError |-> "PykgConfigError",
     NoOpenableFilesError |-> "PackageNotFoundError",
     BadPathError         |-> "PykgConfigError",
     NotAFileError        |-> "BadPathError",
     NotAPCFileError      |-> "BadPathError",
     UndefinedVarError    |-> "Exception",
     ParseError           |-> "Exception",
     EmptyPackageFileError         |-> "ParseError",
     MalformedLineError            |-> "ParseError",
     MultiplyDefinedValueError     |-> "ParseError",
     TrailingContinuationCharError |-> "ParseError",
     IndexError           |-> "Exception",
     Exception            |-> "Exception"]

\* isinstance(an exception of class cls, handler): what "except handler" catches
RECURSIVE IsInstance(_, _)
IsInstance(cls, handler) ==
    \/ cls = handler
    \/ (ExcBase[cls] # cls /\ IsInstance(ExcBase[cls], handler))

NoExc == [cls |-> "none", pkgname |-> <<>>, variable |-> "", pcfile |-> <<>>]

\* PackageNotFoundError(pkgname) and its subclass, which adds nothing
PackageNotFoundError(pkgname) ==
    [cls |-> "PackageNotFoundError", pkgname |-> pkgname, variable |-> "", pcfile |-> <<>>]

NoOpenableFilesError(pkgname) ==
    [cls |-> "NoOpenableFilesError", pkgname |-> pkgname, variable |-> "", pcfile |-> <<>>]

UndefinedVarError(variable, pcfile) ==
    [cls |-> "UndefinedVarError", pkgname |-> <<>>, variable |-> variable, pcfile |-> pcfile]

ParseError(pcfile) ==
    [cls |-> "ParseError", pkgname |-> <<>>, variable |-> "", pcfile |-> pcfile]

-----------------------------------------------------------------------------
(* dependency.py: a version constraint.  A version is a natural number,   *)
(* 0 standing for the empty version.                                       *)

ALWAYS_MATCH == "ALWAYS_MATCH"
LESS_THAN == "LESS_THAN"
LESS_THAN_EQUAL == "LESS_THAN_EQUAL"
EQUAL == "EQUAL"
NOT_EQUAL == "NOT_EQUAL"
GREATER_THAN_EQUAL == "GREATER_THAN_EQUAL"
GREATER_THAN == "GREATER_THAN"

Operators == {ALWAYS_MATCH, LESS_THAN, LESS_THAN_EQUAL, EQUAL, NOT_EQUAL,
              GREATER_THAN_EQUAL, GREATER_THAN}

EmptyVersion == 0

Dependency(name, operator, version) ==
    [name |-> name, operator |-> operator, version |-> version]

\* Dependency.meets_requirement with a filter that forgets the direction
meets_requirement_reversed(self, other_version) ==
    IF self.operator = ALWAYS_MATCH THEN TRUE
    ELSE IF self.operator = LESS_THAN THEN other_version > self.version
    ELSE IF self.operator = LESS_THAN_EQUAL THEN other_version >= self.version
    ELSE IF self.operator = EQUAL THEN other_version = self.version
    ELSE IF self.operator = NOT_EQUAL THEN other_version # self.version
    ELSE IF self.operator = GREATER_THAN_EQUAL THEN other_version <= self.version
    ELSE IF self.operator = GREATER_THAN THEN other_version < self.version
    ELSE FALSE

\* Dependency.meets_requirement
meets_requirement(self, other_version) ==
    IF self.operator = ALWAYS_MATCH THEN TRUE
    ELSE IF self.operator = LESS_THAN THEN other_version < self.version
    ELSE IF self.operator = LESS_THAN_EQUAL THEN other_version <= self.version
    ELSE IF self.operator = EQUAL THEN other_version = self.version
    ELSE IF self.operator = NOT_EQUAL THEN other_version # self.version
    ELSE IF self.operator = GREATER_THAN_EQUAL THEN other_version >= self.version
    ELSE IF self.operator = GREATER_THAN THEN other_version > self.version
    ELSE FALSE

-----------------------------------------------------------------------------
(* What Package(pcfile, globals) meets in a file: it cannot be opened      *)
(* (IOError), a variable it uses is undefined, it is otherwise unparsable, *)
(* or it parses and declares a version.                                    *)

Unopenable == [kind |-> "io", var |-> "", version |-> 0]
UsesUndefined(v) == [kind |-> "undef", var |-> v, version |-> 0]
Unparsable == [kind |-> "bad", var |-> "", version |-> 0]
Declares(v) == [kind |-> "ok", var |-> "", version |-> v]

NoPackage == [pcfile |-> <<>>, version |-> 0]

\* Package(pcfile, globals): the package, or the exception the constructor raises
Package(pcfile) ==
    LET c == pc_content[pcfile] IN
    IF c.kind = "io" THEN [exc |-> "IOError", variable |-> "", pkg |-> NoPackage]
    ELSE IF c.kind = "undef" THEN [exc |-> "UndefinedVarError", variable |-> c.var, pkg |-> NoPackage]
    ELSE IF c.kind = "bad" THEN [exc |-> "ParseError", variable |-> "", pkg |-> NoPackage]
    ELSE [exc |-> "none", variable |-> "", pkg |-> [pcfile |-> pcfile, version |-> c.version]]

-----------------------------------------------------------------------------
(* pkgsearcher.py: building the search index *)

\* _append_packages, lines 311-318, with the duplicate test left out
add_known_file_unchecked(known, name, full_path) ==
    IF DictHas(known, name)
    THEN DictSet(known, name, Append(DictGet(known, name), full_path))
    ELSE DictSet(known, name, <<full_path>>)

\* _append_packages, lines 311-318: one .pc file enters the index
add_known_file(known, name, full_path) ==
    IF DictHas(known, name)
    THEN IF full_path \notin Range(DictGet(known, name))
         THEN DictSet(known, name, Append(DictGet(known, name), full_path))
         ELSE known
    ELSE DictSet(known, name, <<full_path>>)

\* _append_packages, the loop over listdir(d) from its i-th entry on
RECURSIVE append_files(_, _, _, _)
append_files(known, d, files, i) ==
    IF i > Len(files) THEN known
    ELSE LET filename == files[i] IN
         IF endswith_pc(filename)
         THEN append_files(add_known_file(known, strip_ext(filename), join(d, filename)),
                           d, files, i + 1)
         ELSE append_files(known, d, files, i + 1)

\* PkgSearcher._append_packages(d)
_append_packages(known, d) == append_files(known, d, listdir(d), 1)

\* The directories of a list that a loop of _init_search_dirs scans
Scannable(dirs) == SelectSeq(dirs, LAMBDA d : d # <<>> /\ isdir(d))

\* _init_search_dirs, lines 237-241: PKG_CONFIG_PATH
config_path_dirs(g) ==
    IF "config_path" \in DOMAIN g /\ g["config_path"] # <<>>
    THEN Scannable(g["config_path"])
    ELSE <<>>

\* _init_search_dirs, lines 243-247: PKG_CONFIG_LIBDIR
config_libdir_dirs(g) ==
    IF "config_libdir" \in DOMAIN g /\ g["config_libdir"] # <<>>
    THEN Scannable(g["config_libdir"])
    ELSE <<>>

\* _init_search_dirs, lines 250-272: one registry root; a key that cannot be
\* opened is passed over, a value is scanned when it is a string naming a directory
registry_root_dirs(key) ==
    IF ~key.openable THEN <<>>
    ELSE LET usable == SelectSeq(key.values, LAMBDA e : e.type = "REG_SZ" /\ isdir(e.val))
         IN [i \in 1..Len(usable) |-> usable[i].val]

\* _init_search_dirs, lines 248-272: HKEY_CURRENT_USER, then HKEY_LOCAL_MACHINE
registry_dirs ==
    IF platform = "win32"
    THEN Flatten([i \in 1..Len(registry) |-> registry_root_dirs(registry[i])])
    ELSE <<>>

\* _init_search_dirs, lines 275-297: the compiled-in pc_path, or else the
\* three directories under the prefix
default_dirs(g) ==
    LET prefix == IF "prefix" \in DOMAIN g THEN g["prefix"] ELSE SysPrefix IN
    IF pc_path # <<>>
    THEN Scannable(split(pc_path, _split_char))
    ELSE LET suffix == IF options.is_64bit THEN <<"64">> ELSE <<>>
             dirs2check == <<join(prefix, <<"lib">> \o suffix),
                             join(prefix, <<"share">>),
                             join(prefix, <<"lib">>)>>
             pkgconfig == [i \in 1..3 |-> join(dirs2check[i], <<"pkgconfig">>)]
         IN SelectSeq(pkgconfig, isdir)

\* _init_search_dirs, lines 298-300: the extra search paths of the options
search_paths_dirs == SelectSeq(options.search_paths, isdir)

\* Every call of _append_packages that _init_search_dirs makes, in order
scan_calls(g) ==
    config_path_dirs(g) \o config_libdir_dirs(g) \o registry_dirs
        \o default_dirs(g) \o search_paths_dirs

RECURSIVE append_all(_, _)
append_all(known, dirs) ==
    IF dirs = <<>> THEN known
    ELSE append_all(_append_packages(known, Head(dirs)), Tail(dirs))

\* PkgSearcher._init_search_dirs, on the empty index __init__ made
_init_search_dirs(g) == append_all(EmptyDict, scan_calls(g))

-----------------------------------------------------------------------------
(* pkgsearcher.py: the queries *)

\* search_for_pcfile falling back to the installed file under uninstalled_only
search_for_pcfile_fallback(known, pkgname) ==
    IF options.prefer_uninstalled /\ DictHas(known, Append(pkgname, Uninstalled))
    THEN DictGet(known, Append(pkgname, Uninstalled))
    ELSE IF DictHas(known, pkgname) THEN DictGet(known, pkgname)
    ELSE <<>>

\* PkgSearcher.search_for_pcfile(pkgname)
search_for_pcfile(known, pkgname) ==
    IF options.prefer_uninstalled /\ DictHas(known, Append(pkgname, Uninstalled))
    THEN DictGet(known, Append(pkgname, Uninstalled))
    ELSE IF options.prefer_uninstalled /\ options.uninstalled_only
    THEN <<>>
    ELSE IF DictHas(known, pkgname) THEN DictGet(known, pkgname)
    ELSE <<>>

\* What a call of search_for_package leaves: the exception it raised or the
\* package it returned, the files it gave to Package() in order, and the index.
Outcome(exc, pkg, parsed, known) ==
    [exc |-> exc, pkg |-> pkg, parsed |-> parsed, known |-> known]

\* The loop of search_for_package passing over an undefined variable as it
\* passes over an IOError
RECURSIVE load_packages_skipping_undefined(_, _, _, _)
load_packages_skipping_undefined(pcfiles, i, pkgs, parsed) ==
    IF i > Len(pcfiles) THEN [exc |-> NoExc, pkgs |-> pkgs, parsed |-> parsed]
    ELSE LET pcfile == pcfiles[i]
             p == Package(pcfile)
             tried == Append(parsed, pcfile)
         IN IF p.exc = "IOError" \/ p.exc = "UndefinedVarError"
            THEN load_packages_skipping_undefined(pcfiles, i + 1, pkgs, tried)
            ELSE IF p.exc = "ParseError"
            THEN [exc |-> ParseError(pcfile), pkgs |-> pkgs, parsed |-> tried]
            ELSE load_packages_skipping_undefined(pcfiles, i + 1, Append(pkgs, p.pkg), tried)

\* search_for_package, lines 147-155: the loop over pcfiles from the i-th on.
\* An IOError passes to the next file; an UndefinedVarError is raised again
\* for this file; any other exception of Package() leaves the loop as it is.
RECURSIVE load_packages(_, _, _, _)
load_packages(pcfiles, i, pkgs, parsed) ==
    IF i > Len(pcfiles) THEN [exc |-> NoExc, pkgs |-> pkgs, parsed |-> parsed]
    ELSE LET pcfile == pcfiles[i]
             p == Package(pcfile)
             tried == Append(parsed, pcfile)
         IN IF p.exc = "IOError" THEN load_packages(pcfiles, i + 1, pkgs, tried)
            ELSE IF p.exc = "UndefinedVarError"
            THEN [exc |-> UndefinedVarError(p.variable, pcfile), pkgs |-> pkgs, parsed |-> tried]
            ELSE IF p.exc = "ParseError"
            THEN [exc |-> ParseError(pcfile), pkgs |-> pkgs, parsed |-> tried]
            ELSE load_packages(pcfiles, i + 1, Append(pkgs, p.pkg), tried)

\* The loop of lines 147-155 run together with the filter of line 162: it
\* stops at the first candidate that parses and meets the requirement
RECURSIVE load_until_match(_, _, _, _)
load_until_match(pcfiles, i, dep, parsed) ==
    IF i > Len(pcfiles) THEN [exc |-> NoExc, pkgs |-> <<>>, parsed |-> parsed]
    ELSE LET pcfile == pcfiles[i]
             p == Package(pcfile)
             tried == Append(parsed, pcfile)
         IN IF p.exc = "IOError" THEN load_until_match(pcfiles, i + 1, dep, tried)
            ELSE IF p.exc = "UndefinedVarError"
            THEN [exc |-> UndefinedVarError(p.variable, pcfile), pkgs |-> <<>>, parsed |-> tried]
            ELSE IF p.exc = "ParseError"
            THEN [exc |-> ParseError(pcfile), pkgs |-> <<>>, parsed |-> tried]
            ELSE IF meets_requirement(dep, p.pkg.version)
            THEN [exc |-> NoExc, pkgs |-> <<p.pkg>>, parsed |-> tried]
            ELSE load_until_match(pcfiles, i + 1, dep, tried)

\* resolve parsing no candidate after the first one that matches
resolve_until_match(known, pcfiles, dep) ==
    LET loaded == load_until_match(pcfiles, 1, dep, <<>>) IN
    IF loaded.exc # NoExc
    THEN Outcome(loaded.exc, NoPackage, loaded.parsed, known)
    ELSE IF (\A i \in 1..Len(pcfiles) : Package(pcfiles[i]).exc = "IOError")
    THEN Outcome(NoOpenableFilesError(dep), NoPackage, loaded.parsed, known)
    ELSE IF loaded.pkgs = <<>>
    THEN Outcome(PackageNotFoundError(dep), NoPackage, loaded.parsed, known)
    ELSE Outcome(NoExc, loaded.pkgs[1], loaded.parsed, known)

\* resolve returning the last package that passes the filter
resolve_last_match(known, pcfiles, dep) ==
    LET loaded == load_packages(pcfiles, 1, <<>>, <<>>) IN
    IF loaded.exc # NoExc
    THEN Outcome(loaded.exc, NoPackage, loaded.parsed, known)
    ELSE IF loaded.pkgs = <<>> /\ pcfiles # <<>>
    THEN Outcome(NoOpenableFilesError(dep), NoPackage, loaded.parsed, known)
    ELSE LET pkgs == SelectSeq(loaded.pkgs, LAMBDA pkg : meets_requirement(dep, pkg.version))
         IN IF pkgs = <<>>
            THEN Outcome(PackageNotFoundError(dep), NoPackage, loaded.parsed, known)
            ELSE Outcome(NoExc, pkgs[Len(pkgs)], loaded.parsed, known)

\* resolve without lines 156-161: no file opened ends as no file matching
resolve_plain_not_found(known, pcfiles, dep) ==
    LET loaded == load_packages(pcfiles, 1, <<>>, <<>>) IN
    IF loaded.exc # NoExc
    THEN Outcome(loaded.exc, NoPackage, loaded.parsed, known)
    ELSE LET pkgs == SelectSeq(loaded.pkgs, LAMBDA pkg : meets_requirement(dep, pkg.version))
         IN IF pkgs = <<>>
            THEN Outcome(PackageNotFoundError(dep), NoPackage, loaded.parsed, known)
            ELSE Outcome(NoExc, pkgs[1], loaded.parsed, known)

\* search_for_package, lines 147-168: from the candidate files to the result
resolve(known, pcfiles, dep) ==
    LET loaded == load_packages(pcfiles, 1, <<>>, <<>>) IN
    IF loaded.exc # NoExc
    THEN Outcome(loaded.exc, NoPackage, loaded.parsed, known)
    ELSE IF loaded.pkgs = <<>> /\ pcfiles # <<>>
    THEN Outcome(NoOpenableFilesError(dep), NoPackage, loaded.parsed, known)
    ELSE LET pkgs == SelectSeq(loaded.pkgs, LAMBDA pkg : meets_requirement(dep, pkg.version))
         IN IF pkgs = <<>>
            THEN Outcome(PackageNotFoundError(dep), NoPackage, loaded.parsed, known)
            ELSE Outcome(NoExc, pkgs[1], loaded.parsed, known)

\* search_for_package, lines 136-142: the candidate files of a dependency
candidates(known, dep) ==
    IF isfile(dep.name) /\ splitext_is_pc(dep.name)
    THEN <<dep.name>>
    ELSE search_for_pcfile(known, dep.name)

\* search_for_package taking each candidate it tries off the list that
\* search_for_pcfile returned, which is the list the index holds
search_for_package_consuming(known, dep) ==
    LET pcfiles == candidates(known, dep)
        out == resolve(known, pcfiles, dep)
    IN IF pcfiles = <<>>
       THEN Outcome(PackageNotFoundError(dep), NoPackage, <<>>, known)
       ELSE IF DictHas(known, dep.name) /\ DictGet(known, dep.name) = pcfiles
       THEN [out EXCEPT !.known = DictSet(known, dep.name,
                                          SubSeq(pcfiles, Len(out.parsed) + 1, Len(pcfiles)))]
       ELSE out

\* PkgSearcher.search_for_package(dep, globals)
search_for_package(known, dep) ==
    LET pcfiles == candidates(known, dep) IN
    IF pcfiles = <<>>
    THEN Outcome(PackageNotFoundError(dep), NoPackage, <<>>, known)
    ELSE resolve(known, pcfiles, dep)

\* known_packages_list, lines 216-232: the loop over the index from its i-th key.
\* It returns the (result, errors) pair, or stops at an exception it does not catch.
RECURSIVE list_known(_, _, _, _)
list_known(known, i, result, errors) ==
    IF i > Len(known) THEN [exc |-> NoExc, result |-> result, errors |-> errors]
    ELSE LET pkgname == known[i].k
             p == Package(known[i].v[1])
         IN IF p.exc = "IOError" THEN list_known(known, i + 1, result, errors)
            ELSE IF p.exc = "UndefinedVarError"
            THEN list_known(known, i + 1, result,
                            Append(errors, [variable |-> p.variable, pcfile |-> known[i].v[1]]))
            ELSE IF p.exc = "ParseError"
            THEN [exc |-> ParseError(known[i].v[1]), result |-> result, errors |-> errors]
            ELSE list_known(known, i + 1, Append(result, [pkgname |-> pkgname, pkg |-> p.pkg]), errors)

\* PkgSearcher.known_packages_list()
known_packages_list(known) == list_known(known, 1, <<>>, <<>>)

-----------------------------------------------------------------------------
(* The directories, files, packages and constraints the model draws from *)

DirA == <<"A">>
DirB == <<"B">>
DirMissing == <<"N">>
Prefix == <<"P">>
PrefixLib == <<"P", Slash, "lib", Slash, "pkgconfig">>
PrefixLib64 == <<"P", Slash, "lib", "64", Slash, "pkgconfig">>

FooPc == <<"foo", PcExt>>
FooUninstalledPc == <<"foo", Uninstalled, PcExt>>
BarPc == <<"bar", "-2.0", PcExt>>
Readme == <<"README">>

Foo == <<"foo">>
Bar == <<"bar">>
BarStem == <<"bar", "-2.0">>
Zip == <<"zip">>

\* The .pc paths listed in a file system
PcPaths(f) ==
    UNION {{join(d, f[d][i]) : i \in {j \in 1..Len(f[d]) : endswith_pc(f[d][j])}} : d \in DOMAIN f}

\* The names asked for
PkgNames == {Foo, Bar, BarStem, Zip}

\* The constraints asked for: a bare name, or a name with an operator and a version
Constraints ==
    {[operator |-> ALWAYS_MATCH, version |-> EmptyVersion]}
        \cup [operator : Operators \ {ALWAYS_MATCH}, version : 1..MaxVersion]

\* A package name, or the path of a .pc file given directly
DepNames == {Foo, Bar, BarStem, join(DirA, FooPc)}

Deps == {Dependency(n, c.operator, c.version) : n \in DepNames, c \in Constraints}

NoDep == Dependency(<<>>, ALWAYS_MATCH, EmptyVersion)

NoCall ==
    [op |-> "none", pkgname |-> <<>>, dep |-> NoDep, ret |-> <<>>,
     exc |-> NoExc, pkg |-> NoPackage, parsed |-> <<>>, errors |-> <<>>]

MakeOptions(prefer, only, is64, paths) ==
    [prefer_uninstalled |-> prefer, uninstalled_only |-> only,
     is_64bit |-> is64, search_paths |-> paths]

\* A globals dict holding the given keys
MakeGlobals(keys, config_path, config_libdir, prefix) ==
    [key \in keys |->
        IF key = "config_path" THEN config_path
        ELSE IF key = "config_libdir" THEN config_libdir
        ELSE prefix]

\* No file is being parsed
NoParse ==
    [op |-> "none", exc |-> "none", detail |-> <<>>, merged |-> <<>>,
     raw_vars |-> <<>>, vars |-> <<>>, props |-> <<>>]

ParserIdle ==
    /\ lines = <<>>
    /\ global_variables = <<>>
    /\ parse_last = NoParse

\* No call into dependency.py or packagespeclist.py has been made
NoDepCall == [op |-> "none", exc |-> "none", ret |-> <<>>, text |-> <<>>]

DepIdle ==
    /\ dependency = NoDep
    /\ argument = <<>>
    /\ dep_last = NoDepCall

\* os.environ as the os module creates it: an os._Environ whose assignments
\* call putenv
NoEnvBlock ==
    [pc |-> "outside", how |-> "none", patch |-> <<>>, backup |-> <<>>, before |-> <<>>]

EnvIdle ==
    /\ os_environ = [class |-> "_Environ", data |-> <<>>]
    /\ process_environ = <<>>
    /\ env_block = NoEnvBlock

-----------------------------------------------------------------------------
(* The operations on a PkgSearcher *)

\* PkgSearcher.__init__(globals)
Construct ==
    /\ ~constructed
    /\ _known_pkgs' = _init_search_dirs(globals)
    /\ scan_log' = scan_calls(globals)
    /\ constructed' = TRUE
    /\ UNCHANGED <<fs, pc_content, options, pc_path, platform, registry, globals, last>>
    /\ UNCHANGED <<parser_vars, dep_vars, env_vars>>

\* A call of search_for_pcfile(pkgname)
SearchForPcfile ==
    /\ constructed
    /\ last = NoCall
    /\ \E pkgname \in PkgNames :
          last' = [NoCall EXCEPT !.op = "search_for_pcfile", !.pkgname = pkgname,
                                 !.ret = search_for_pcfile(_known_pkgs, pkgname)]
    /\ UNCHANGED <<fs, pc_content, options, pc_path, platform, registry, globals,
                   _known_pkgs, scan_log, constructed>>
    /\ UNCHANGED <<parser_vars, dep_vars, env_vars>>

\* A call of search_for_package(dep, globals)
SearchForPackage ==
    /\ constructed
    /\ last = NoCall
    /\ \E dep \in Deps :
          LET out == search_for_package(_known_pkgs, dep) IN
          /\ last' = [NoCall EXCEPT !.op = "search_for_package", !.dep = dep,
                                    !.exc = out.exc, !.pkg = out.pkg, !.parsed = out.parsed]
          /\ _known_pkgs' = out.known
    /\ UNCHANGED <<fs, pc_content, options, pc_path, platform, registry, globals,
                   scan_log, constructed>>
    /\ UNCHANGED <<parser_vars, dep_vars, env_vars>>

\* A call of known_packages_list()
KnownPackagesList ==
    /\ constructed
    /\ last = NoCall
    /\ LET out == known_packages_list(_known_pkgs) IN
          last' = [NoCall EXCEPT !.op = "known_packages_list", !.exc = out.exc,
                                 !.ret = out.result, !.errors = out.errors]
    /\ UNCHANGED <<fs, pc_content, options, pc_path, platform, registry, globals,
                   _known_pkgs, scan_log, constructed>>
    /\ UNCHANGED <<parser_vars, dep_vars, env_vars>>

\* The caller has taken what the last call returned or raised, and goes on
Return ==
    /\ last # NoCall
    /\ last' = NoCall
    /\ UNCHANGED <<fs, pc_content, options, pc_path, platform, registry, globals,
                   _known_pkgs, scan_log, constructed>>
    /\ UNCHANGED <<parser_vars, dep_vars, env_vars>>

-----------------------------------------------------------------------------
(* Resolution: a few directories on PKG_CONFIG_PATH, files of every kind *)

ResolveFs ==
    {[d \in {DirA, DirB} |-> IF d = DirA THEN la ELSE <<FooPc>>] :
        la \in {<<FooPc>>, <<FooUninstalledPc, Readme, FooPc>>, <<BarPc>>}}

\* What the file at a path may hold
ContentsAt(path) ==
    IF path = join(DirA, BarPc) THEN {Declares(2)}
    ELSE IF path = join(DirA, FooUninstalledPc) THEN {Declares(1), Unopenable}
    ELSE {Unopenable, UsesUndefined("libdir"), Unparsable, Declares(1), Declares(2)}

ContentChoices(f) ==
    {c \in [PcPaths(f) -> UNION {ContentsAt(p) : p \in PcPaths(f)}] :
        \A p \in PcPaths(f) : c[p] \in ContentsAt(p)}

ResolveInit ==
    /\ fs \in ResolveFs
    /\ pc_content \in ContentChoices(fs)
    /\ options \in {MakeOptions(p, o, FALSE, <<>>) : p \in BOOLEAN, o \in BOOLEAN}
    /\ pc_path = <<>>
    /\ platform = "linux"
    /\ registry = <<>>
    /\ globals \in {MakeGlobals({"config_path"}, cp, <<>>, <<>>) :
                        cp \in SeqsUpTo({DirA, DirB}, MaxPathLen)}
    /\ _known_pkgs = EmptyDict
    /\ scan_log = <<>>
    /\ constructed = FALSE
    /\ last = NoCall
    /\ ParserIdle
    /\ DepIdle
    /\ EnvIdle

Init == ResolveInit

Next == Construct \/ SearchForPcfile \/ SearchForPackage \/ KnownPackagesList \/ Return

Spec == Init /\ [][Next]_vars

-----------------------------------------------------------------------------
(* Properties of the resolver *)

\* The candidate files of the dependency of the last search_for_package call
LastCandidates == candidates(_known_pkgs, last.dep)

\* Every candidate opens and parses
AllParse(c) == \A i \in 1..Len(c) : pc_content[c[i]].kind = "ok"

\* Every candidate fails to open
NoneOpens(c) == \A i \in 1..Len(c) : pc_content[c[i]].kind = "io"

\* The places in the candidate list whose parsed version meets the constraint
Satisfying(c, dep) ==
    {i \in 1..Len(c) : pc_content[c[i]].kind = "ok"
                        /\ meets_requirement(dep, pc_content[c[i]].version)}

Least(S) == CHOOSE i \in S : \A j \in S : i <= j

\* The files given to Package() are the candidates in order, from the first on
ParsedIsPrefix(c) == last.parsed = SubSeq(c, 1, Len(last.parsed))

\* C1: search_for_package, when every candidate opens and parses, returns the
\* earliest candidate in list order whose version meets the requirement; it
\* raises PackageNotFoundError when candidates exist and none meets it, and,
\* having parsed nothing, when there is no candidate.
C1_FirstMatchOrNotFound ==
    last.op = "search_for_package" =>
        LET c == LastCandidates
            sat == Satisfying(c, last.dep)
        IN /\ c = <<>> =>
                /\ last.exc = PackageNotFoundError(last.dep)
                /\ last.parsed = <<>>
           /\ (c # <<>> /\ AllParse(c)) =>
                IF sat # {}
                THEN /\ last.exc = NoExc
                     /\ last.pkg = [pcfile |-> c[Least(sat)],
                                    version |-> pc_content[c[Least(sat)]].version]
                ELSE last.exc = PackageNotFoundError(last.dep)

\* C1 witness: two candidates parse, the first fails the constraint, the
\* second meets it and is the package returned
C1_Witness ==
    /\ last.op = "search_for_package"
    /\ Len(LastCandidates) = 2
    /\ AllParse(LastCandidates)
    /\ Satisfying(LastCandidates, last.dep) = {2}
    /\ last.exc = NoExc
    /\ last.pkg.pcfile = LastCandidates[2]

\* C2 as stated: NoOpenableFilesError is raised exactly when there are candidates
\* and none opens, a candidate that fails to open is passed over and the next
\* is tried, and a caller testing for PackageNotFoundError does not accept it.
C2_Original ==
    last.op = "search_for_package" =>
        LET c == LastCandidates IN
        /\ (last.exc.cls = "NoOpenableFilesError") <=> (c # <<>> /\ NoneOpens(c))
        /\ \A i \in 1..Len(last.parsed) :
              (pc_content[c[i]].kind = "io" /\ i < Len(c)) => Len(last.parsed) > i
        /\ (c # <<>> /\ NoneOpens(c)) => ~IsInstance(last.exc.cls, "PackageNotFoundError")

\* C2 as amended: NoOpenableFilesError is raised exactly when there are candidates
\* and none opens, a candidate that fails to open is passed over and the next
\* is tried; the exception is of a class of its own, which the zero-candidate
\* PackageNotFoundError is not an instance of, and which is a subclass of
\* PackageNotFoundError: a caller testing for PackageNotFoundError accepts both.
C2_NoOpenableFiles ==
    last.op = "search_for_package" =>
        LET c == LastCandidates IN
        /\ ParsedIsPrefix(c)
        /\ (last.exc.cls = "NoOpenableFilesError") <=> (c # <<>> /\ NoneOpens(c))
        /\ \A i \in 1..Len(last.parsed) :
              (pc_content[c[i]].kind = "io" /\ i < Len(c)) => Len(last.parsed) > i
        /\ (c # <<>> /\ NoneOpens(c)) =>
              /\ last.exc = NoOpenableFilesError(last.dep)
              /\ IsInstance(last.exc.cls, "PackageNotFoundError")
        /\ c = <<>> =>
              /\ last.exc.cls = "PackageNotFoundError"
              /\ ~IsInstance(last.exc.cls, "NoOpenableFilesError")

\* C2 witness: two candidates, neither opens, both were tried
C2_Witness ==
    /\ last.op = "search_for_package"
    /\ Len(LastCandidates) = 2
    /\ NoneOpens(LastCandidates)
    /\ last.parsed = LastCandidates
    /\ last.exc.cls = "NoOpenableFilesError"

\* C3: an undefined variable met while parsing a candidate is raised again at
\* once as UndefinedVarError with the same variable and that candidate's path,
\* and no later candidate is parsed.
C3_UndefinedVarReraised ==
    last.op = "search_for_package" =>
        LET c == LastCandidates IN
        /\ ParsedIsPrefix(c)
        /\ \A i \in 1..Len(last.parsed) :
              pc_content[c[i]].kind = "undef" =>
                 /\ last.exc = UndefinedVarError(pc_content[c[i]].var, c[i])
                 /\ Len(last.parsed) = i

\* C3 witness: the first of two candidates uses an undefined variable; the
\* error names it and the second candidate was not parsed
C3_Witness ==
    /\ last.op = "search_for_package"
    /\ Len(LastCandidates) = 2
    /\ pc_content[LastCandidates[1]].kind = "undef"
    /\ last.exc.cls = "UndefinedVarError"
    /\ last.exc.pcfile = LastCandidates[1]
    /\ last.parsed = <<LastCandidates[1]>>

\* C5: search_for_pcfile returns the paths of name + "-uninstalled" when
\* prefer_uninstalled is on and the index has that entry; the empty list when
\* prefer_uninstalled and uninstalled_only are on and it has not; and in every
\* other case the paths of the plain name, or the empty list.
C5_SearchForPcfile ==
    last.op = "search_for_pcfile" =>
        LET un == Append(last.pkgname, Uninstalled)
            plain == IF DictHas(_known_pkgs, last.pkgname)
                     THEN DictGet(_known_pkgs, last.pkgname) ELSE <<>>
        IN /\ (options.prefer_uninstalled /\ DictHas(_known_pkgs, un)) =>
                last.ret = DictGet(_known_pkgs, un)
           /\ (options.prefer_uninstalled /\ options.uninstalled_only
                 /\ ~DictHas(_known_pkgs, un)) => last.ret = <<>>
           /\ ~(options.prefer_uninstalled
                 /\ (DictHas(_known_pkgs, un) \/ options.uninstalled_only)) =>
                last.ret = plain

\* C5 witness: both options on, no uninstalled entry, a plain entry that is
\* not returned
C5_Witness ==
    /\ last.op = "search_for_pcfile"
    /\ options.prefer_uninstalled /\ options.uninstalled_only
    /\ ~DictHas(_known_pkgs, Append(last.pkgname, Uninstalled))
    /\ DictHas(_known_pkgs, last.pkgname)
    /\ last.ret = <<>>

\* The index was built from the one directory A, which holds only bar-2.0.pc,
\* a file declaring version 2, and the options do not restrict the search to
\* uninstalled packages
OnlyBarFile ==
    /\ constructed
    /\ ~(options.prefer_uninstalled /\ options.uninstalled_only)
    /\ scan_log = <<DirA>>
    /\ fs[DirA] = <<BarPc>>
    /\ pc_content[join(DirA, BarPc)] = Declares(2)

\* C6 as stated: with only bar-2.0.pc, declaring version 2, in the one search
\* directory, "bar >= 1" resolves to a package of version 2 and "bar >= 3"
\* raises PackageNotFoundError.
C6_Original ==
    (OnlyBarFile /\ last.op = "search_for_package" /\ last.dep.name = Bar) =>
        /\ last.dep = Dependency(Bar, GREATER_THAN_EQUAL, 1) =>
              (last.exc = NoExc /\ last.pkg.version = 2)
        /\ last.dep = Dependency(Bar, GREATER_THAN_EQUAL, 3) =>
              last.exc.cls = "PackageNotFoundError"

\* C6 as amended: with only bar-2.0.pc, declaring version 2, in the one search
\* directory, and the search not restricted to uninstalled packages, the index holds the one name "bar-2.0": "bar-2.0 >= 1" resolves to
\* a package of version 2, "bar-2.0 >= 3" raises PackageNotFoundError, and so
\* do "bar >= 1" and "bar >= 3", the name "bar" having no candidate.
C6_FileStemIsName ==
    (OnlyBarFile /\ last.op = "search_for_package") =>
        /\ DictKeys(_known_pkgs) = {BarStem}
        /\ last.dep = Dependency(BarStem, GREATER_THAN_EQUAL, 1) =>
              /\ last.exc = NoExc
              /\ last.pkg = [pcfile |-> join(DirA, BarPc), version |-> 2]
        /\ last.dep = Dependency(BarStem, GREATER_THAN_EQUAL, 3) =>
              last.exc = PackageNotFoundError(last.dep)
        /\ last.dep.name = Bar =>
              /\ last.exc = PackageNotFoundError(last.dep)
              /\ last.parsed = <<>>

\* C6 witness: "bar-2.0 >= 1" has resolved to the file's package
C6_Witness ==
    /\ OnlyBarFile
    /\ last.op = "search_for_package"
    /\ last.dep = Dependency(BarStem, GREATER_THAN_EQUAL, 1)
    /\ last.exc = NoExc
    /\ last.pkg.version = 2

\* C7: once the constructor has returned, no call of search_for_pcfile,
\* search_for_package or known_packages_list changes _known_pkgs, its keys or
\* any of its path lists, however the call ends.
C7_IndexReadOnly == [][constructed => _known_pkgs' = _known_pkgs]_vars

\* C7 witness: a search has failed with no file openable, on an index that
\* holds entries
C7_Witness ==
    /\ constructed
    /\ _known_pkgs # EmptyDict
    /\ last.op = "search_for_package"
    /\ last.exc.cls = "NoOpenableFilesError"

-----------------------------------------------------------------------------
(* Index building: every source of search directories, files that parse *)

PrefixShare == <<"P", Slash, "share", Slash, "pkgconfig">>

\* The directories under the prefix that exist, with their listings
PrefixDirChoices ==
    {<<>>,
     (PrefixLib :> <<FooPc>>),
     (PrefixLib :> <<FooPc>>) @@ (PrefixLib64 :> <<FooPc>>) @@ (PrefixShare :> <<BarPc>>)}

IndexFs ==
    {(DirA :> la) @@ (DirB :> <<FooPc, BarPc>>) @@ under :
        la \in {<<FooPc>>, <<FooUninstalledPc, Readme, FooPc>>, <<BarPc>>},
        under \in PrefixDirChoices}

\* The registry of a Windows machine: HKEY_CURRENT_USER has no pkg-config key,
\* HKEY_LOCAL_MACHINE has one with three values
WindowsRegistry ==
    <<[openable |-> FALSE, values |-> <<>>],
      [openable |-> TRUE,
       values |-> <<[type |-> "REG_SZ", val |-> DirB],
                    [type |-> "REG_DWORD", val |-> DirA],
                    [type |-> "REG_SZ", val |-> DirMissing]>>]>>

IndexGlobals ==
    {MakeGlobals(keys, cp, <<DirMissing, DirB>>, Prefix) :
        keys \in SUBSET {"config_path", "config_libdir", "prefix"},
        cp \in SeqsUpTo({DirA, DirB, <<>>}, MaxPathLen)}

IndexInit ==
    /\ fs \in IndexFs
    /\ pc_content = [p \in PcPaths(fs) |-> Declares(1)]
    /\ options \in {MakeOptions(FALSE, FALSE, is64, paths) :
                        is64 \in BOOLEAN, paths \in {<<>>, <<PrefixLib, DirA>>}}
    /\ pc_path \in {<<>>, <<"B", ":", "A">>}
    /\ platform \in {"linux", "win32"}
    /\ registry = IF platform = "win32" THEN WindowsRegistry ELSE <<>>
    /\ globals \in IndexGlobals
    /\ _known_pkgs = EmptyDict
    /\ scan_log = <<>>
    /\ constructed = FALSE
    /\ last = NoCall
    /\ ParserIdle
    /\ DepIdle
    /\ EnvIdle

NextIndex == Construct \/ SearchForPcfile \/ Return

SpecIndex == IndexInit /\ [][NextIndex]_vars

-----------------------------------------------------------------------------
(* Properties of the index *)

GlobalsList(key) == IF key \in DOMAIN globals THEN globals[key] ELSE <<>>

\* The directories the registry values name, in order (none off Windows)
RegistryListed ==
    IF platform = "win32"
    THEN Flatten([i \in 1..Len(registry) |->
            IF registry[i].openable
            THEN LET sz == SelectSeq(registry[i].values, LAMBDA e : e.type = "REG_SZ")
                 IN [j \in 1..Len(sz) |-> sz[j].val]
            ELSE <<>>])
    ELSE <<>>

\* The default directories: the pieces of pc_path, or else the three under the prefix
DefaultListed ==
    IF pc_path # <<>> THEN split(pc_path, _split_char)
    ELSE LET prefix == IF "prefix" \in DOMAIN globals THEN globals["prefix"] ELSE SysPrefix
             lib == IF options.is_64bit THEN <<"lib", "64">> ELSE <<"lib">>
         IN <<prefix \o <<Slash>> \o lib \o <<Slash, "pkgconfig">>,
              prefix \o <<Slash, "share", Slash, "pkgconfig">>,
              prefix \o <<Slash, "lib", Slash, "pkgconfig">>>>

\* The order of traversal as C4 gives it
TraversalStated ==
    GlobalsList("config_path") \o GlobalsList("config_libdir")
        \o DefaultListed \o options.search_paths

\* The order of traversal with the registry's directories in their place
TraversalWithRegistry ==
    GlobalsList("config_path") \o GlobalsList("config_libdir") \o RegistryListed
        \o DefaultListed \o options.search_paths

\* Directory d exists and lists the file n.pc
HoldsPc(d, n) == d \in DOMAIN fs /\ (n \o <<PcExt>>) \in Range(fs[d])

FirstAt(seq, d) == CHOOSE i \in 1..Len(seq) : seq[i] = d /\ \A j \in 1..(i - 1) : seq[j] # d

\* Every name a .pc file of the file system gives, and the names asked for
AllNames ==
    PkgNames \cup UNION {{strip_ext(fs[d][i]) : i \in {j \in 1..Len(fs[d]) : endswith_pc(fs[d][j])}}
                            : d \in DOMAIN fs}

\* The index entry of n is the paths d/n.pc of the directories d of the
\* traversal that exist and list n.pc, each once, in order of first traversal;
\* a name no such directory lists has no entry
IndexFollows(traversal) ==
    \A n \in AllNames :
        LET holders == {d \in Range(traversal) : HoldsPc(d, n)}
            entry == IF DictHas(_known_pkgs, n) THEN DictGet(_known_pkgs, n) ELSE <<>>
        IN /\ DictHas(_known_pkgs, n) <=> holders # {}
           /\ Len(entry) = Cardinality(holders)
           /\ \A i \in 1..Len(entry) :
                 \E d \in holders :
                    /\ entry[i] = join(d, n \o <<PcExt>>)
                    /\ \A j \in (i + 1)..Len(entry) :
                          \E e \in holders :
                             /\ entry[j] = join(e, n \o <<PcExt>>)
                             /\ FirstAt(traversal, d) < FirstAt(traversal, e)

-----------------------------------------------------------------------------
(* pcfile.py: text is a sequence of characters *)

Backslash == "\\"
Newline == "\n"
Space == " "

\* str.isspace, for the characters of str.strip() and the regex class \s
IsSpace(c) == c \in {" ", "\n", "\t", "\r", "\f"}

RECURSIVE rstrip(_)
rstrip(s) ==
    IF s # <<>> /\ IsSpace(s[Len(s)]) THEN rstrip(SubSeq(s, 1, Len(s) - 1)) ELSE s

RECURSIVE lstrip(_)
lstrip(s) == IF s # <<>> /\ IsSpace(s[1]) THEN lstrip(Tail(s)) ELSE s

strip(s) == lstrip(rstrip(s))

LowerOf ==
    [A |-> "a", B |-> "b", C |-> "c", D |-> "d", E |-> "e", F |-> "f", G |-> "g",
     H |-> "h", I |-> "i", J |-> "j", K |-> "k", L |-> "l", M |-> "m", N |-> "n",
     O |-> "o", P |-> "p", Q |-> "q", R |-> "r", S |-> "s", T |-> "t", U |-> "u",
     V |-> "v", W |-> "w", X |-> "x", Y |-> "y", Z |-> "z"]

\* str.lower
lower(s) == [i \in 1..Len(s) |-> IF s[i] \in DOMAIN LowerOf THEN LowerOf[s[i]] ELSE s[i]]

\* The regex class [\w.]
KeyChars ==
    DOMAIN LowerOf \cup {LowerOf[u] : u \in DOMAIN LowerOf}
        \cup {"0", "1", "2", "3", "4", "5", "6", "7", "8", "9", "_", "."}

IsKeyChar(c) == c \in KeyChars

-----------------------------------------------------------------------------
(* pcfile.py: merge_lines *)

Raised(exc, detail) == [exc |-> exc, detail |-> detail, result |-> <<>>]
Returned(result) == [exc |-> "none", detail |-> <<>>, result |-> result]

\* new_line[:-2]
drop_last_two(s) == SubSeq(s, 1, Len(s) - 2)

\* merge_lines, lines 193-197: while new_line ends with the continuation
\* character, cut it and take the next physical line, lines[ii + 1] here; there
\* being none is an IndexError
RECURSIVE continue_line(_, _, _, _)
continue_line(ls, cont_char, ii, new_line) ==
    IF new_line[Len(new_line)] = cont_char
    THEN IF ii + 1 > Len(ls)
         THEN [exc |-> "IndexError", ii |-> ii + 1, new_line |-> new_line]
         ELSE continue_line(ls, cont_char, ii + 1,
                            drop_last_two(new_line) \o <<Space>> \o rstrip(ls[ii + 1]))
    ELSE [exc |-> "none", ii |-> ii, new_line |-> new_line]

\* merge_lines, lines 185-202: the loop from the ii-th physical line on
RECURSIVE merge_from(_, _, _, _)
merge_from(ls, cont_char, ii, result) ==
    IF ii > Len(ls) THEN Returned(result)
    ELSE LET new_line == rstrip(ls[ii]) IN
         IF new_line = <<>> THEN merge_from(ls, cont_char, ii + 1, result)
         ELSE LET c == continue_line(ls, cont_char, ii, new_line) IN
              IF c.exc # "none" THEN Raised(c.exc, <<>>)
              ELSE merge_from(ls, cont_char, c.ii + 1, Append(result, c.new_line))

\* merge_lines(lines, cont_char); lines[-1][-1] of no line or of an empty last
\* line is an IndexError
merge_lines(ls, cont_char) ==
    IF ls = <<>> \/ ls[Len(ls)] = <<>> THEN Raised("IndexError", <<>>)
    ELSE IF ls[Len(ls)][Len(ls[Len(ls)])] = cont_char
    THEN Raised("TrailingContinuationCharError", ls[Len(ls)])
    ELSE merge_from(ls, cont_char, 1, <<>>)

-----------------------------------------------------------------------------
(* pcfile.py: one logical line *)

\* str.find(ch): the first index of ch, 0 standing for -1
find(s, ch) ==
    IF \E i \in 1..Len(s) : s[i] = ch
    THEN CHOOSE i \in 1..Len(s) : s[i] = ch /\ \A j \in 1..(i - 1) : s[j] # ch
    ELSE 0

strip_comments(line) ==
    LET comment_start == find(line, "#") IN
    IF comment_start = 0 THEN line ELSE SubSeq(line, 1, comment_start - 1)

VARIABLE_TYPE == "VARIABLE"
PROPERTY_TYPE == "PROPERTY"

\* The length of the longest prefix matching [\w.]*
key_len(line) ==
    CHOOSE n \in 0..Len(line) :
        /\ \A i \in 1..n : IsKeyChar(line[i])
        /\ n = Len(line) \/ ~IsKeyChar(line[n + 1])

\* The group (?P<value>.+)? after \s*: the rest up to a newline, None being
\* replaced by "" in split_pc_file_line
value_group(rest) ==
    LET s == lstrip(rest)
        nl == find(s, Newline)
    IN IF nl = 0 THEN s ELSE SubSeq(s, 1, nl - 1)

\* property_re.match and variable_re.match, which differ in the delimiter
re_match(line, delim) ==
    LET n == key_len(line) IN
    IF n >= 1 /\ n < Len(line) /\ line[n + 1] = delim
    THEN [matched |-> TRUE, key |-> SubSeq(line, 1, n),
          value |-> value_group(SubSeq(line, n + 2, Len(line)))]
    ELSE [matched |-> FALSE, key |-> <<>>, value |-> <<>>]

\* A classification that takes a line matching neither grammar for a variable
split_pc_file_line_as_variable(line) ==
    LET p == re_match(line, ":")
        v == re_match(line, "=")
    IN IF p.matched THEN [key |-> p.key, value |-> p.value, type |-> PROPERTY_TYPE]
       ELSE IF v.matched THEN [key |-> v.key, value |-> v.value, type |-> VARIABLE_TYPE]
       ELSE [key |-> <<>>, value |-> line, type |-> VARIABLE_TYPE]

split_pc_file_line(line) ==
    LET p == re_match(line, ":")
        v == re_match(line, "=")
    IN IF p.matched THEN [key |-> p.key, value |-> p.value, type |-> PROPERTY_TYPE]
       ELSE IF v.matched THEN [key |-> v.key, value |-> v.value, type |-> VARIABLE_TYPE]
       ELSE [key |-> <<>>, value |-> <<>>, type |-> "None"]

\* props.py: the known property keys and their defaults
empty_raw_props ==
    << [k |-> <<"n","a","m","e">>, v |-> <<>>],
       [k |-> <<"d","e","s","c","r","i","p","t","i","o","n">>,
        v |-> <<"N","o"," ","d","e","s","c","r","i","p","t","i","o","n">>],
       [k |-> <<"v","e","r","s","i","o","n">>, v |-> <<>>],
       [k |-> <<"r","e","q","u","i","r","e","s">>, v |-> <<>>] >>

\* substitute.py: every reference ${name} from position i on is replaced by the
\* value of name in replacements, else in globals, else it is undefined
RECURSIVE substitute_from(_, _, _, _, _)
substitute_from(value, i, replacements, globals_, out) ==
    IF i > Len(value) THEN Returned(out)
    ELSE LET close == find(SubSeq(value, i, Len(value)), "}") + i - 1
             name == SubSeq(value, i + 2, close - 1)
         IN IF /\ value[i] = "$"
               /\ i < Len(value) /\ value[i + 1] = "{"
               /\ close > i + 1
            THEN IF DictHas(replacements, name)
                 THEN substitute_from(value, close + 1, replacements, globals_,
                                      out \o DictGet(replacements, name))
                 ELSE IF DictHas(globals_, name)
                 THEN substitute_from(value, close + 1, replacements, globals_,
                                      out \o DictGet(globals_, name))
                 ELSE Raised("UndefinedVarError", name)
            ELSE substitute_from(value, i + 1, replacements, globals_,
                                 Append(out, value[i]))

substitute(value, replacements, globals_) ==
    substitute_from(value, 1, replacements, globals_, <<>>)

\* The dictionaries a parse builds, and the exception that ended it
ParseState(exc, detail, raw_vars, vars_, props, seen_props) ==
    [exc |-> exc, detail |-> detail, raw_vars |-> raw_vars, vars |-> vars_,
     props |-> props, seen_props |-> seen_props]

ParseFailed(exc, detail) == ParseState(exc, detail, <<>>, <<>>, <<>>, <<>>)

\* key in seen_props
seen(key, seen_props) == key \in Range(seen_props)

\* A parse_line that substitutes the line's own value whatever the globals hold
parse_line_own_value(line, st, globals_) ==
    IF line = <<>> THEN st
    ELSE LET s == split_pc_file_line(line) IN
    IF s.type = VARIABLE_TYPE
    THEN IF DictHas(st.vars, s.key)
         THEN ParseFailed("MultiplyDefinedValueError", s.key)
         ELSE LET sub == substitute(strip(s.value), st.vars, globals_)
              IN IF sub.exc # "none" THEN ParseFailed(sub.exc, sub.detail)
                 ELSE [st EXCEPT !.raw_vars = DictSet(@, s.key, strip(s.value)),
                                 !.vars = DictSet(@, s.key, sub.result)]
    ELSE IF s.type = PROPERTY_TYPE
    THEN IF seen(s.key, st.seen_props)
         THEN ParseFailed("MultiplyDefinedValueError", s.key)
         ELSE IF DictHas(empty_raw_props, lower(s.key))
         THEN [st EXCEPT !.props = DictSet(@, lower(s.key), s.value),
                         !.seen_props = Append(@, s.key)]
         ELSE st
    ELSE st

parse_line(line, st, globals_) ==
    IF line = <<>> THEN st
    ELSE LET s == split_pc_file_line(line) IN
    IF s.type = VARIABLE_TYPE
    THEN IF DictHas(st.vars, s.key)
         THEN ParseFailed("MultiplyDefinedValueError", s.key)
         ELSE LET text == IF DictHas(globals_, s.key)
                          THEN DictGet(globals_, s.key)
                          ELSE strip(s.value)
                  sub == substitute(text, st.vars, globals_)
              IN IF sub.exc # "none" THEN ParseFailed(sub.exc, sub.detail)
                 ELSE [st EXCEPT !.raw_vars = DictSet(@, s.key, strip(s.value)),
                                 !.vars = DictSet(@, s.key, sub.result)]
    ELSE IF s.type = PROPERTY_TYPE
    THEN IF seen(s.key, st.seen_props)
         THEN ParseFailed("MultiplyDefinedValueError", s.key)
         ELSE IF DictHas(empty_raw_props, lower(s.key))
         THEN [st EXCEPT !.props = DictSet(@, lower(s.key), s.value),
                         !.seen_props = Append(@, s.key)]
         ELSE st
    ELSE st

\* A loop that takes the merged lines from the last to the first
RECURSIVE parse_merged_backwards(_, _, _)
parse_merged_backwards(merged, st, globals_) ==
    IF merged = <<>> \/ st.exc # "none" THEN st
    ELSE parse_merged_backwards(SubSeq(merged, 1, Len(merged) - 1),
                                parse_line(strip(strip_comments(merged[Len(merged)])),
                                           st, globals_),
                                globals_)

\* parse_pc_file_lines, lines 158-161: the loop over the merged lines
RECURSIVE parse_merged(_, _, _)
parse_merged(merged, st, globals_) ==
    IF merged = <<>> \/ st.exc # "none" THEN st
    ELSE parse_merged(Tail(merged),
                      parse_line(strip(strip_comments(Head(merged))), st, globals_),
                      globals_)

parse_pc_file_lines(ls, globals_) ==
    LET m == merge_lines(ls, Backslash) IN
    IF m.exc # "none" THEN ParseFailed(m.exc, m.detail)
    ELSE parse_merged(m.result,
                      ParseState("none", <<>>, EmptyDict, EmptyDict, empty_raw_props, <<>>),
                      globals_)

\* read_pc_file on a file whose readlines() is ls
read_pc_file(ls, globals_) ==
    IF ls = <<>> THEN ParseFailed("EmptyPackageFileError", <<>>)
    ELSE parse_pc_file_lines(ls, globals_)

-----------------------------------------------------------------------------
(* Parsing the lines of a file *)

\* The texts of the physical lines, without their line terminator
BodyContinued == <<"a", "\\">>
BodyB == <<"b">>
BodyBlank == <<>>
BodyVersion1 == <<"V","e","r","s","i","o","n",":"," ","1">>
BodyVersionLower2 == <<"v","e","r","s","i","o","n",":"," ","2">>
BodyP1 == <<"p","=","1">>
BodyVRefP == <<"v","=","$","{","p","}">>
BodyDescriptionBare == <<"D","e","s","c","r","i","p","t","i","o","n",":">>
BodyUnknownCommented == <<"F","o","o",":"," ","1"," ","#","c">>
BodyP2SpaceContinued == <<"p","=","2"," ","\\">>

Bodies ==
    {BodyContinued, BodyB, BodyBlank, BodyVersion1, BodyVersionLower2, BodyP1,
     BodyVRefP, BodyDescriptionBare, BodyUnknownCommented, BodyP2SpaceContinued}

\* Which lines carry a line terminator: none (a list built by the caller),
\* all (a file ending with a newline), all but the last (a file that does not)
Terminators == {"none", "all", "all_but_last"}

terminate(bodies, mode) ==
    [i \in 1..Len(bodies) |->
        IF mode = "all" \/ (mode = "all_but_last" /\ i < Len(bodies))
        THEN Append(bodies[i], Newline)
        ELSE bodies[i]]

\* What file.readlines() can return: no empty string, and every line but the
\* last ends with its terminator
is_readlines(ls) ==
    /\ \A i \in 1..Len(ls) : ls[i] # <<>>
    /\ \A i \in 1..(Len(ls) - 1) : ls[i][Len(ls[i])] = Newline

GlobalP == << [k |-> <<"p">>, v |-> <<"9">>] >>

\* A global whose text refers to a variable of the file
GlobalPRefersV == << [k |-> <<"p">>, v |-> <<"$","{","v","}","9">>] >>

GlobalV == << [k |-> <<"v">>, v |-> <<"7">>] >>

GlobalChoices == {EmptyDict, GlobalP, GlobalPRefersV, GlobalV}

ParseOutcome(op, merged, st) ==
    [op |-> op, exc |-> st.exc, detail |-> st.detail, merged |-> merged,
     raw_vars |-> st.raw_vars, vars |-> st.vars, props |-> st.props]

\* merge_lines(lines, "\\")
MergeLines ==
    /\ parse_last = NoParse
    /\ LET m == merge_lines(lines, Backslash) IN
       parse_last' = ParseOutcome("merge_lines", m.result, ParseFailed(m.exc, m.detail))
    /\ UNCHANGED <<lines, global_variables, searcher_vars, dep_vars, env_vars>>

\* parse_pc_file_lines(lines, global_variables)
ParsePcFileLines ==
    /\ parse_last = NoParse
    /\ parse_last' = ParseOutcome("parse_pc_file_lines", <<>>,
                                  parse_pc_file_lines(lines, global_variables))
    /\ UNCHANGED <<lines, global_variables, searcher_vars, dep_vars, env_vars>>

\* read_pc_file(filename, global_variables), the file's lines being lines
ReadPcFile ==
    /\ parse_last = NoParse
    /\ is_readlines(lines)
    /\ parse_last' = ParseOutcome("read_pc_file", <<>>,
                                  read_pc_file(lines, global_variables))
    /\ UNCHANGED <<lines, global_variables, searcher_vars, dep_vars, env_vars>>

ParseInit ==
    /\ fs = <<>>
    /\ pc_content = <<>>
    /\ options = MakeOptions(FALSE, FALSE, FALSE, <<>>)
    /\ pc_path = <<>>
    /\ platform = "linux"
    /\ registry = <<>>
    /\ globals = MakeGlobals({}, <<>>, <<>>, <<>>)
    /\ _known_pkgs = EmptyDict
    /\ scan_log = <<>>
    /\ constructed = FALSE
    /\ last = NoCall
    /\ \E bodies \in SeqsUpTo(Bodies, MaxLines), mode \in Terminators :
          lines = terminate(bodies, mode)
    /\ global_variables \in GlobalChoices
    /\ parse_last = NoParse
    /\ DepIdle
    /\ EnvIdle

NextParse == MergeLines \/ ParsePcFileLines \/ ReadPcFile

SpecParse == ParseInit /\ [][NextParse]_vars

-----------------------------------------------------------------------------
(* Properties of the parser *)

Parsed == parse_last.op \in {"parse_pc_file_lines", "read_pc_file"}

\* The logical lines parse_line is given, split into key, value and type
logical_lines(ls) ==
    LET m == merge_lines(ls, Backslash).result IN
    [i \in 1..Len(m) |-> split_pc_file_line(strip(strip_comments(m[i])))]

\* Two logical lines assign the same variable, or declare the same known
\* property, property keys being compared as they are matched against the
\* known-property table
DefinedTwice(ls) ==
    LET ll == logical_lines(ls) IN
    \E i, j \in 1..Len(ll) :
        /\ i < j
        /\ ll[i].type = ll[j].type
        /\ \/ ll[i].type = VARIABLE_TYPE /\ ll[i].key = ll[j].key
           \/ /\ ll[i].type = PROPERTY_TYPE
              /\ lower(ll[i].key) = lower(ll[j].key)
              /\ DictHas(empty_raw_props, lower(ll[i].key))

\* C8: in every successful parse each variable and each known property, the
\* property keys compared case-insensitively, was defined by at most one line
C8_DefinedAtMostOnce ==
    (Parsed /\ parse_last.exc = "none") => ~DefinedTwice(lines)

\* A physical line without its line terminator
body(line) ==
    IF line # <<>> /\ line[Len(line)] = Newline
    THEN SubSeq(line, 1, Len(line) - 1)
    ELSE line

EndsWithMarker(line) == body(line) # <<>> /\ body(line)[Len(body(line))] = Backslash

\* What merging may remove from a physical line: the marker and the terminator
without_marker(line) ==
    IF EndsWithMarker(line) THEN SubSeq(body(line), 1, Len(body(line)) - 1) ELSE body(line)

\* The characters of a text other than white space
RECURSIVE ink(_)
ink(s) ==
    IF s = <<>> THEN <<>>
    ELSE IF IsSpace(Head(s)) THEN ink(Tail(s))
    ELSE <<Head(s)>> \o ink(Tail(s))

\* C9: merge_lines removes from a physical line ending with the continuation
\* marker only the marker and the line terminator, and joins it to the next
\* line with one space: no other character is lost, and ['a\', 'b'] merges to
\* ['a b']
C9_MergeKeepsText ==
    (parse_last.op = "merge_lines" /\ parse_last.exc = "none") =>
        /\ ink(Flatten(parse_last.merged)) =
               ink(Flatten([i \in 1..Len(lines) |-> without_marker(lines[i])]))
        /\ lines = <<BodyContinued, BodyB>> => parse_last.merged = << <<"a", " ", "b">> >>

\* C10: when the final physical line ends with the continuation marker, with
\* a line terminator after it or without, the call fails with
\* TrailingContinuationCharError and with no other error
C10_TrailingContinuation ==
    (parse_last.op # "none" /\ lines # <<>> /\ EndsWithMarker(lines[Len(lines)])) =>
        parse_last.exc = "TrailingContinuationCharError"


\* The dictionaries a parse starts from (parse_pc_file_lines, lines 153-156)
InitialParseState ==
    ParseState("none", <<>>, EmptyDict, EmptyDict, empty_raw_props, <<>>)

\* The merged lines as parse_line receives them
stripped_lines(ls) ==
    LET m == merge_lines(ls, Backslash).result IN
    [i \in 1..Len(m) |-> strip(strip_comments(m[i]))]

\* A non-empty line matching neither the property nor the variable grammar
Malformed(line) ==
    /\ line # <<>>
    /\ ~re_match(line, ":").matched
    /\ ~re_match(line, "=").matched

RECURSIVE without_malformed(_)
without_malformed(ll) ==
    IF ll = <<>> THEN <<>>
    ELSE IF Malformed(Head(ll)) THEN without_malformed(Tail(ll))
    ELSE <<Head(ll)>> \o without_malformed(Tail(ll))

\* parse_line applied to the given logical lines in turn
RECURSIVE parse_lines(_, _, _)
parse_lines(ll, st, globals_) ==
    IF ll = <<>> \/ st.exc # "none" THEN st
    ELSE parse_lines(Tail(ll), parse_line(Head(ll), st, globals_), globals_)

SameResult(outcome, st) ==
    /\ outcome.exc = st.exc
    /\ outcome.detail = st.detail
    /\ outcome.raw_vars = st.raw_vars
    /\ outcome.vars = st.vars
    /\ outcome.props = st.props

MergeSucceeds == merge_lines(lines, Backslash).exc = "none"

\* C11: a non-empty logical line matching neither grammar leaves raw_vars,
\* vars, props and seen_props as they were and raises nothing, so the result
\* of a parse is the result of parsing the logical lines without the
\* malformed ones
C11_MalformedLinesSkipped ==
    (Parsed /\ MergeSucceeds) =>
        /\ SameResult(parse_last,
                      parse_lines(without_malformed(stripped_lines(lines)),
                                  InitialParseState, global_variables))
        /\ LET sl == stripped_lines(lines) IN
           \A i \in 1..Len(sl) :
              Malformed(sl[i]) =>
                  parse_line(sl[i], InitialParseState, global_variables)
                      = InitialParseState

\* A parse that met a malformed line and still defined a variable
C11_Witness ==
    /\ Parsed /\ MergeSucceeds
    /\ parse_last.exc = "none"
    /\ parse_last.vars # EmptyDict
    /\ LET sl == stripped_lines(lines) IN \E i \in 1..Len(sl) : Malformed(sl[i])


\* The position of a key in a dict, in insertion order
DictIndex(d, key) == CHOOSE i \in 1..Len(d) : d[i].k = key

\* The items a dict held before the key was inserted
DictBefore(d, key) == SubSeq(d, 1, DictIndex(d, key) - 1)

\* The logical lines that assign the variable key
Assignments(ls, key) ==
    LET ll == logical_lines(ls) IN
    {i \in 1..Len(ll) : ll[i].type = VARIABLE_TYPE /\ ll[i].key = key}

\* C12: for a variable line whose key is a global, vars[key] is the
\* substitution of the global's text, against the variables accumulated so far
\* and the globals, and raw_vars[key] is the line's own trimmed text; for a
\* key that is not a global, vars[key] is the substitution of the line's own
\* trimmed value
C12_GlobalOverridesValue ==
    (Parsed /\ parse_last.exc = "none") =>
        LET ll == logical_lines(lines) IN
        \A key \in DictKeys(parse_last.vars) :
            \A i \in Assignments(lines, key) :
                LET own == strip(ll[i].value)
                    before == DictBefore(parse_last.vars, key)
                IN /\ DictGet(parse_last.raw_vars, key) = own
                   /\ DictGet(parse_last.vars, key) =
                         IF DictHas(global_variables, key)
                         THEN substitute(DictGet(global_variables, key), before,
                                         global_variables).result
                         ELSE substitute(own, before, global_variables).result

\* A parse where a global replaced the value a line gave, its text referring
\* to a variable the file defined before
C12_Witness ==
    /\ Parsed /\ parse_last.exc = "none"
    /\ global_variables = GlobalPRefersV
    /\ DictHas(parse_last.vars, <<"p">>)
    /\ DictGet(parse_last.raw_vars, <<"p">>) = <<"1">>
    /\ DictGet(parse_last.vars, <<"p">>) # <<"1">>
    /\ DictBefore(parse_last.vars, <<"p">>) # EmptyDict


\* The names a text refers to as ${name}
references(value) ==
    {SubSeq(value, i + 2, i + 1 + find(SubSeq(value, i + 2, Len(value)), "}") - 1) :
        i \in {j \in 1..(Len(value) - 1) :
                  /\ value[j] = "$" /\ value[j + 1] = "{"
                  /\ find(SubSeq(value, j + 2, Len(value)), "}") > 0}}

\* The variables the logical lines ll assign before the i-th
AssignedBefore(ll, i) ==
    {ll[j].key : j \in {k \in 1..(i - 1) : ll[k].type = VARIABLE_TYPE}}

\* The i-th of the logical lines ll assigns a variable and its own value
\* refers to a name that is neither a global nor assigned by an earlier line
ForwardReference(ll, i, name) ==
    /\ ll[i].type = VARIABLE_TYPE
    /\ name \in references(strip(ll[i].value))
    /\ ~DictHas(global_variables, name)
    /\ name \notin AssignedBefore(ll, i)

\* The parse of the stripped lines sl before the i-th
ParseBefore(sl, i) ==
    parse_lines(SubSeq(sl, 1, i - 1), InitialParseState, global_variables)

Declarations(ll, key) ==
    {i \in 1..Len(ll) : ll[i].type = PROPERTY_TYPE /\ lower(ll[i].key) = key}

\* C14: after a successful parse, a known property declared by one line only,
\* and with no value (bare 'key:'), holds the default of the known-property
\* table
C14_BareKeyDefault ==
    (Parsed /\ parse_last.exc = "none") =>
        LET ll == logical_lines(lines) IN
        \A key \in DictKeys(empty_raw_props) :
            \A i \in Declarations(ll, key) :
                (Declarations(ll, key) = {i} /\ ll[i].value = <<>>)
                    => DictGet(parse_last.props, key) = DictGet(empty_raw_props, key)

-----------------------------------------------------------------------------
(* dependency.py: Dependency.meets_requirement *)

\* The searcher as it is when no PkgSearcher is under study
SearcherIdle ==
    /\ fs = <<>>
    /\ pc_content = <<>>
    /\ options = MakeOptions(FALSE, FALSE, FALSE, <<>>)
    /\ pc_path = <<>>
    /\ platform = "linux"
    /\ registry = <<>>
    /\ globals = MakeGlobals({}, <<>>, <<>>, <<>>)
    /\ _known_pkgs = EmptyDict
    /\ scan_log = <<>>
    /\ constructed = FALSE
    /\ last = NoCall

\* An operator value that is none of the seven constants
OtherOperator == "OTHER"

\* self.meets_requirement(other_version)
MeetsRequirement ==
    /\ dep_last = NoDepCall
    /\ dep_last' = [op |-> "meets_requirement", exc |-> "none",
                    ret |-> meets_requirement(dependency, argument), text |-> <<>>]
    /\ UNCHANGED <<dependency, argument, searcher_vars, parser_vars, env_vars>>

MeetsInit ==
    /\ SearcherIdle
    /\ ParserIdle
    /\ EnvIdle
    /\ dependency \in {Dependency(n, o, v) : n \in {Foo, Bar},
                                            o \in Operators \cup {OtherOperator},
                                            v \in 0..MaxVersion}
    /\ argument \in 0..MaxVersion
    /\ dep_last = NoDepCall

NextMeets == MeetsRequirement

SpecMeets == MeetsInit /\ [][NextMeets]_vars

\* The truth value of 'candidate <op> version'
Compares(candidate, operator, version) ==
    CASE operator = LESS_THAN -> candidate < version
      [] operator = LESS_THAN_EQUAL -> candidate <= version
      [] operator = EQUAL -> candidate = version
      [] operator = NOT_EQUAL -> candidate # version
      [] operator = GREATER_THAN_EQUAL -> candidate >= version
      [] operator = GREATER_THAN -> candidate > version

MeetsResult ==
    dep_last.op = "meets_requirement" =>
        dep_last.ret =
            IF dependency.operator = ALWAYS_MATCH THEN TRUE
            ELSE IF dependency.operator \in Operators
            THEN Compares(argument, dependency.operator, dependency.version)
            ELSE FALSE

\* C15: meets_requirement(candidate) is the truth value of
\* 'candidate <op> self.version' for the six relational operators, true for
\* ALWAYS_MATCH whatever the candidate, false for any other operator value,
\* and the call changes neither the Dependency nor the candidate
C15_MeetsRequirement ==
    /\ []MeetsResult
    /\ [][dependency' = dependency /\ argument' = argument]_vars

\* A call that holds for '<' and would not hold for '>'
C15_Witness ==
    /\ dep_last.op = "meets_requirement"
    /\ dependency.operator = LESS_THAN
    /\ argument < dependency.version
    /\ dep_last.ret = TRUE

-----------------------------------------------------------------------------
(* packagespeclist.py: parse_package_spec_list.  A version is kept as its  *)
(* text, the empty text being the empty version.                           *)

\* The classes [^\s,!=<>], [!=<>] and [^\s,] of the regular expression
IsNameChar(c) == ~IsSpace(c) /\ c \notin {",", "!", "=", "<", ">"}
IsOperatorChar(c) == c \in {"!", "=", "<", ">"}
IsVersionChar(c) == ~IsSpace(c) /\ c # ","

\* The length of the longest run of characters of a class from position i
\* on; in_class[k] tells whether the k-th character is of the class
Run(in_class, i) ==
    CHOOSE n \in 0..(Len(in_class) - i + 1) :
        /\ \A k \in 0..(n - 1) : in_class[i + k]
        /\ i + n > Len(in_class) \/ ~in_class[i + n]

\* operators.py: the operator an operator text stands for; ALWAYS_MATCH when
\* there is no text
text_to_operator(text) ==
    IF text = <<>> THEN ALWAYS_MATCH
    ELSE IF text = <<"<">> THEN LESS_THAN
    ELSE IF text = <<"<", "=">> THEN LESS_THAN_EQUAL
    ELSE IF text = <<"=">> THEN EQUAL
    ELSE IF text = <<"!", "=">> THEN NOT_EQUAL
    ELSE IF text = <<">", "=">> THEN GREATER_THAN_EQUAL
    ELSE IF text = <<">">> THEN GREATER_THAN
    ELSE OtherOperator

\* The match of the regular expression that starts with the name character at
\* position i: the groups name, operator and version, and where it ends
spec_match(s, i) ==
    LET n == Run([x \in 1..Len(s) |-> IsNameChar(s[x])], i)
        j == i + n
        o == j + Run([x \in 1..Len(s) |-> IsSpace(s[x])], j)
        k == Run([x \in 1..Len(s) |-> IsOperatorChar(s[x])], o)
        v == o + k + Run([x \in 1..Len(s) |-> IsSpace(s[x])], o + k)
        m == Run([x \in 1..Len(s) |-> IsVersionChar(s[x])], v)
        name == SubSeq(s, i, j - 1)
    IN IF j <= Len(s) /\ s[j] = ","
       THEN [name |-> name, operator |-> <<>>, version |-> <<>>, end |-> j + 1]
       ELSE IF k >= 1 /\ m >= 1
       THEN [name |-> name, operator |-> SubSeq(s, o, o + k - 1),
             version |-> SubSeq(s, v, v + m - 1), end |-> v + m]
       ELSE IF k >= 2
       THEN [name |-> name, operator |-> SubSeq(s, o, o + k - 2),
             version |-> <<s[o + k - 1]>>, end |-> o + k]
       ELSE [name |-> name, operator |-> <<>>, version |-> <<>>, end |-> j]

\* re.findall: the matches from position i on, from left to right
RECURSIVE spec_findall(_, _)
spec_findall(s, i) ==
    IF i > Len(s) THEN <<>>
    ELSE IF IsNameChar(s[i])
    THEN <<spec_match(s, i)>> \o spec_findall(s, spec_match(s, i).end)
    ELSE spec_findall(s, i + 1)

\* A parse that returns the dependencies last first
parse_package_spec_list_reversed(value) ==
    LET matches == spec_findall(strip(value), 1) IN
    [p \in 1..Len(matches) |->
        Dependency(matches[Len(matches) + 1 - p].name,
                   text_to_operator(matches[Len(matches) + 1 - p].operator),
                   matches[Len(matches) + 1 - p].version)]

parse_package_spec_list(value) ==
    LET matches == spec_findall(strip(value), 1) IN
    [p \in 1..Len(matches) |->
        Dependency(matches[p].name, text_to_operator(matches[p].operator),
                   matches[p].version)]


\* The parts a dependency list is written from
PieceA == <<"a">>
PieceB == <<"b">>
PieceOne == <<"1">>
PieceLess == <<"<">>
PieceGreater == <<">">>
PieceEqual == <<"=">>
PieceNotEqual == <<"!", "=">>
PieceBlank == <<" ">>
PieceComma == <<",">>

WordPieces == {PieceA, PieceB, PieceOne}
OperatorPieces == {PieceLess, PieceGreater, PieceEqual, PieceNotEqual}
SeparatorPieces == {PieceBlank, PieceComma}
Pieces == WordPieces \cup OperatorPieces \cup SeparatorPieces

\* parse_package_spec_list(value), value being spelled by the parts in argument
ParsePackageSpecList ==
    /\ dep_last = NoDepCall
    /\ dep_last' = [op |-> "parse_package_spec_list", exc |-> "none",
                    ret |-> parse_package_spec_list(Flatten(argument)),
                    text |-> Flatten(argument)]
    /\ UNCHANGED <<dependency, argument, searcher_vars, parser_vars, env_vars>>

ListInit ==
    /\ SearcherIdle
    /\ ParserIdle
    /\ EnvIdle
    /\ dependency = NoDep
    /\ argument \in SeqsUpTo(Pieces, MaxPieces)
    /\ dep_last = NoDepCall

NextList == ParsePackageSpecList

SpecList == ListInit /\ [][NextList]_vars

-----------------------------------------------------------------------------
(* Properties of parse_package_spec_list *)

IsWord(p) == p \in WordPieces
IsOperatorPiece(p) == p \in OperatorPieces
IsBlank(p) == p = PieceBlank

\* The operator each operator text of the format stands for
OperatorOfText ==
    {<< <<"<">>, LESS_THAN >>, << <<"<", "=">>, LESS_THAN_EQUAL >>,
     << <<"=">>, EQUAL >>, << <<"!", "=">>, NOT_EQUAL >>,
     << <<">", "=">>, GREATER_THAN_EQUAL >>, << <<">">>, GREATER_THAN >>}

\* The entries a list of parts spells, read as 'name' or 'name<op>version'
\* entries separated by commas or white space, from the i-th part on; ok is
\* false when the parts are not a list of such entries
RECURSIVE entries_from(_, _)
entries_from(ps, i) ==
    IF i > Len(ps) THEN [ok |-> TRUE, deps |-> <<>>]
    ELSE IF ps[i] \in SeparatorPieces THEN entries_from(ps, i + 1)
    ELSE IF ps[i] \in OperatorPieces THEN [ok |-> FALSE, deps |-> <<>>]
    ELSE LET j == i + Run([x \in 1..Len(ps) |-> IsWord(ps[x])], i)
             o == j + Run([x \in 1..Len(ps) |-> IsBlank(ps[x])], j)
             k == Run([x \in 1..Len(ps) |-> IsOperatorPiece(ps[x])], o)
             v == o + k + Run([x \in 1..Len(ps) |-> IsBlank(ps[x])], o + k)
             m == Run([x \in 1..Len(ps) |-> IsWord(ps[x])], v)
             name == Flatten(SubSeq(ps, i, j - 1))
             optext == Flatten(SubSeq(ps, o, o + k - 1))
         IN IF k = 0
            THEN LET rest == entries_from(ps, j) IN
                 [ok |-> rest.ok,
                  deps |-> <<Dependency(name, ALWAYS_MATCH, <<>>)>> \o rest.deps]
            ELSE IF /\ m >= 1
                    /\ \E t \in OperatorOfText : t[1] = optext
            THEN LET rest == entries_from(ps, v + m) IN
                 [ok |-> rest.ok,
                  deps |-> <<Dependency(name,
                                        (CHOOSE t \in OperatorOfText : t[1] = optext)[2],
                                        Flatten(SubSeq(ps, v, v + m - 1)))>> \o rest.deps]
            ELSE [ok |-> FALSE, deps |-> <<>>]

\* C16: parse_package_spec_list returns one Dependency per entry, in input
\* order, and the empty list for a text without entries, and raises nothing;
\* an entry without operator text gets ALWAYS_MATCH and the empty version, and
\* every Dependency returned with ALWAYS_MATCH has the empty version
C16_OnePerEntry ==
    dep_last.op = "parse_package_spec_list" =>
        /\ dep_last.exc = "none"
        /\ entries_from(argument, 1).ok =>
               dep_last.ret = entries_from(argument, 1).deps
        /\ (\A i \in 1..Len(argument) : argument[i] \notin WordPieces) =>
               dep_last.ret = <<>>
        /\ \A i \in 1..Len(dep_last.ret) :
               dep_last.ret[i].operator = ALWAYS_MATCH =>
                   dep_last.ret[i].version = <<>>

\* Two entries, the second with an operator and a version
C16_Witness ==
    /\ dep_last.op = "parse_package_spec_list"
    /\ dep_last.text = <<"b", ",", "a", "<", "1">>
    /\ dep_last.ret = <<Dependency(<<"b">>, ALWAYS_MATCH, <<>>),
                        Dependency(<<"a">>, LESS_THAN, <<"1">>)>>

-----------------------------------------------------------------------------
(* dependency.py: Dependency.__str__, and the round trip through the parser *)

\* operators.py: the text of an operator; ALWAYS_MATCH has none
operator_to_text(operator) ==
    IF operator = LESS_THAN THEN <<"<">>
    ELSE IF operator = LESS_THAN_EQUAL THEN <<"<", "=">>
    ELSE IF operator = EQUAL THEN <<"=">>
    ELSE IF operator = NOT_EQUAL THEN <<"!", "=">>
    ELSE IF operator = GREATER_THAN_EQUAL THEN <<">", "=">>
    ELSE IF operator = GREATER_THAN THEN <<">">>
    ELSE <<>>

\* A rendering that leaves the operator out
str_without_operator(self) ==
    IF self.version = <<>> THEN self.name
    ELSE self.name \o <<" ">> \o self.version

\* Dependency.__str__
__str__(self) ==
    IF self.version = <<>> THEN self.name
    ELSE self.name \o operator_to_text(self.operator) \o self.version

\* The names and the versions a Dependency is built with
NameTexts == {<<"a">>, <<"b", "-", "2", ".", "0">>, <<"a", " ", "b">>, <<"a", "=", "b">>, <<>>}
VersionTexts == {<<>>, <<"1">>, <<"1", ".", "0">>, <<"=", "1">>, <<"1", " ", "0">>, <<"1", ",", "0">>}

\* parse_package_spec_list(str(dependency))
StrThenParse ==
    /\ dep_last = NoDepCall
    /\ dep_last' = [op |-> "str_then_parse", exc |-> "none",
                    ret |-> parse_package_spec_list(__str__(dependency)),
                    text |-> __str__(dependency)]
    /\ UNCHANGED <<dependency, argument, searcher_vars, parser_vars, env_vars>>

RoundTripInit ==
    /\ SearcherIdle
    /\ ParserIdle
    /\ EnvIdle
    /\ dependency \in {Dependency(n, o, v) : n \in NameTexts, o \in Operators,
                                            v \in VersionTexts}
    /\ argument = <<>>
    /\ dep_last = NoDepCall

NextRoundTrip == StrThenParse

SpecRoundTrip == RoundTripInit /\ [][NextRoundTrip]_vars

-----------------------------------------------------------------------------
(* Properties of the round trip *)

\* C17 as stated: every Dependency with a non-empty version is the one
\* element of the list its text parses to
C17_Original ==
    (dep_last.op = "str_then_parse" /\ dependency.version # <<>>) =>
        dep_last.ret = <<dependency>>

\* A name and a version the format can spell
SpellableName(name) == name # <<>> /\ \A i \in 1..Len(name) : IsNameChar(name[i])

SpellableVersion(version) ==
    /\ version # <<>>
    /\ \A i \in 1..Len(version) : IsVersionChar(version[i])
    /\ ~IsOperatorChar(version[1])

\* C17: a Dependency with one of the six relational operators, a name of
\* name characters and a non-empty version without white space or comma that
\* does not begin with an operator character is the one element of the list
\* its text parses to
C17_RoundTrip ==
    ( /\ dep_last.op = "str_then_parse"
      /\ dependency.operator \in Operators \ {ALWAYS_MATCH}
      /\ SpellableName(dependency.name)
      /\ SpellableVersion(dependency.version) ) =>
        dep_last.ret = <<dependency>>

\* A round trip that gives the Dependency back
C17_Witness ==
    /\ dep_last.op = "str_then_parse"
    /\ dependency = Dependency(<<"b", "-", "2", ".", "0">>, GREATER_THAN_EQUAL, <<"1", ".", "0">>)
    /\ dep_last.text = <<"b", "-", "2", ".", "0", ">", "=", "1", ".", "0">>
    /\ dep_last.ret = <<dependency>>

-----------------------------------------------------------------------------
(* pkgconfig.py: the Env context manager.  os.environ is an os._Environ,   *)
(* whose item assignment also calls putenv, until the name is bound to a   *)
(* plain dict; a child process inherits the environment of the process.    *)

EnvNames == {"PKG_CONFIG_PATH", "PKG_CONFIG_LIBDIR"}
EnvValues == {"/a", "/b"}
Unset == "unset"

\* A mapping of environment variables: each name to its value, or unset
Environments == [EnvNames -> EnvValues \cup {Unset}]

\* The keyword arguments of Env(**kwargs): the names given, with their values
Patches == [EnvNames -> EnvValues \cup {Unset}]

\* dict.update / MutableMapping.update
update(data, patch) ==
    [n \in EnvNames |-> IF patch[n] # Unset THEN patch[n] ELSE data[n]]

\* os.environ.update(patch): on an os._Environ every assignment also calls
\* putenv; on a dict it does not
environ_update(environ, process, patch) ==
    [environ |-> [environ EXCEPT !.data = update(@, patch)],
     process |-> IF environ.class = "_Environ" THEN update(process, patch) ELSE process]

\* Env.__exit__: os.environ = self.backup, the dict that os.environ.copy() made
exit(environ, process, backup) ==
    [environ |-> [class |-> "dict", data |-> backup], process |-> process]

\* Env.__enter__
EnvEnter ==
    /\ env_block.pc # "inside"
    /\ \E patch \in Patches :
          LET after == environ_update(os_environ, process_environ, patch) IN
          /\ env_block' = [pc |-> "inside", how |-> "none", patch |-> patch,
                           backup |-> os_environ.data,
                           before |-> [environ |-> os_environ, process |-> process_environ]]
          /\ os_environ' = after.environ
          /\ process_environ' = after.process
    /\ UNCHANGED <<searcher_vars, parser_vars, dep_vars>>

\* Env.__exit__, the block ending normally or by an exception: __exit__ does
\* the same for both and returns None
EnvExit ==
    /\ env_block.pc = "inside"
    /\ \E how \in {"normal", "exception"} :
          env_block' = [env_block EXCEPT !.pc = "exited", !.how = how]
    /\ LET after == exit(os_environ, process_environ, env_block.backup) IN
       /\ os_environ' = after.environ
       /\ process_environ' = after.process
    /\ UNCHANGED <<searcher_vars, parser_vars, dep_vars>>

\* os.environ[name] = value, by later code of the process
EnvAssign ==
    /\ env_block.pc # "inside"
    /\ \E n \in EnvNames, v \in EnvValues :
          LET after == environ_update(os_environ, process_environ,
                                      [m \in EnvNames |-> IF m = n THEN v ELSE Unset]) IN
          /\ os_environ' = after.environ
          /\ process_environ' = after.process
    /\ env_block' = [env_block EXCEPT !.pc = "outside", !.how = "none"]
    /\ UNCHANGED <<searcher_vars, parser_vars, dep_vars>>

EnvInit ==
    /\ SearcherIdle
    /\ ParserIdle
    /\ DepIdle
    /\ \E e \in Environments :
          /\ os_environ = [class |-> "_Environ", data |-> e]
          /\ process_environ = e
          /\ env_block = [pc |-> "outside", how |-> "none",
                          patch |-> [n \in EnvNames |-> Unset],
                          backup |-> e,
                          before |-> [environ |-> os_environ, process |-> process_environ]]

NextEnv == EnvEnter \/ EnvExit \/ EnvAssign

SpecEnv == EnvInit /\ [][NextEnv]_vars

-----------------------------------------------------------------------------
(* Properties of Env *)

\* C18: when a with Env(**patch) block has exited, normally or by an
\* exception, os.environ and the environment of the process, which later
\* children inherit, hold what they held before the block, and os.environ
\* still passes assignments on to the environment of the process
C18_EnvironmentRestored ==
    env_block.pc = "exited" =>
        /\ os_environ.data = env_block.before.environ.data
        /\ process_environ = env_block.before.process
        /\ os_environ.class = env_block.before.environ.class

-----------------------------------------------------------------------------
(* Each directory is scanned once while the index is built *)

\* No directory is passed to _append_packages twice by one _init_search_dirs
ScannedOnce(log) ==
    \A i, j \in 1..Len(log) : i # j => log[i] # log[j]

\* C19: while the search index is built, no directory is scanned more than
\* once: each call of _append_packages during _init_search_dirs is for a
\* directory not already scanned in that construction, the default
\* directories under the prefix with the 64-bit option off included
C19_NoDirectoryScannedTwice == constructed => ScannedOnce(scan_log)

\* C19, the case the claim names: with the 64-bit option off and no
\* compiled-in pc_path, the default directories alone are scanned once each
C19_DefaultDirsScannedOnce ==
    (constructed /\ ~options.is_64bit /\ pc_path = <<>>)
        => ScannedOnce(default_dirs(globals))

-----------------------------------------------------------------------------
(* Every candidate is parsed before the list is filtered by version *)

\* The places in the candidate list whose file uses an undefined variable
UsingUndefined(c) == {i \in 1..Len(c) : pc_content[c[i]].kind = "undef"}

\* The places in the candidate list whose file raises another parse error
OtherwiseUnparsable(c) == {i \in 1..Len(c) : pc_content[c[i]].kind = "bad"}

FirstOf(places) == CHOOSE i \in places : \A j \in places : i <= j

\* C20 as stated: search_for_package parses every candidate before it
\* filters by version, so if any candidate in the list uses an undefined
\* variable, a candidate after a matching one included, the resolution fails
\* with UndefinedVarError and no package is returned
C20_Original ==
    (last.op = "search_for_package" /\ UsingUndefined(LastCandidates) # {})
        => /\ last.exc.cls = "UndefinedVarError"
           /\ last.pkg = NoPackage

\* C20: search_for_package parses every candidate before it filters by
\* version. If a candidate uses an undefined variable, a candidate after a
\* matching one included, no package is returned; the resolution fails with
\* UndefinedVarError for the first such candidate unless a candidate before
\* it raises another parse error, which then is the failure
C20_AllCandidatesParsed ==
    LET c == LastCandidates
        u == FirstOf(UsingUndefined(c))
        earlier == {i \in OtherwiseUnparsable(c) : i < u}
    IN (last.op = "search_for_package" /\ UsingUndefined(c) # {})
        => /\ last.pkg = NoPackage
           /\ IF earlier = {}
              THEN /\ last.exc.cls = "UndefinedVarError"
                   /\ last.exc.pcfile = c[u]
                   /\ last.exc.variable = pc_content[c[u]].var
              ELSE /\ last.exc.cls = "ParseError"
                   /\ last.exc.pcfile = c[FirstOf(earlier)]

\* C20 witness: the first candidate opened, parsed and meets the constraint,
\* the second uses an undefined variable, and the call failed for the second
C20_Witness ==
    /\ last.op = "search_for_package"
    /\ Len(LastCandidates) = 2
    /\ 1 \in Satisfying(LastCandidates, last.dep)
    /\ UsingUndefined(LastCandidates) = {2}
    /\ last.exc.cls = "UndefinedVarError"
    /\ last.exc.pcfile = LastCandidates[2]
    /\ last.pkg = NoPackage

====
